---------------------------- MODULE Spec2Model ----------------------------
(***************************************************************************)
(* State-machine model of LLMManager (src/openai_chat.py): the chat        *)
(* history, its token accounting and truncation, the per-provider request  *)
(* dispatch and the JSON backup of the history.                            *)
(***************************************************************************)
EXTENDS Integers, Sequences, FiniteSets, TLC

VARIABLES provider, model, client, tiktoken_encoder, chat_history,
          chat_history_backup, backup_file,
          last,           \* history variable: the record of the latest call
          switched_from,  \* history variable: the provider set_provider replaced
          calls           \* the number of calls made so far

vars == <<provider, model, client, tiktoken_encoder, chat_history,
          chat_history_backup, backup_file, last, switched_from, calls>>

(***************************************************************************)
(* Bounds of the model.                                                    *)
(***************************************************************************)
\* number of method calls (and re-constructions) explored in one behaviour
MaxCalls == 2

(***************************************************************************)
(* Program constants.                                                      *)
(***************************************************************************)
MaxContextTokens == 128000
PerMessageTokens == 4
TrailingTokens == 2
ImageTokens == 1105
CharsPerToken == 4

(***************************************************************************)
(* Python values.  None is a sentinel string; a str content is [str |-> s] *)
(* and a list content is [list |-> <<blocks>>].                            *)
(***************************************************************************)
None == "<None>"

Providers == {"openai", "claude", "gemini"}
\* what a caller may pass as provider: the three known ones and an unknown one
ProviderArgs == Providers \cup {"llama"}

\* a text of 64000 tokens and a text of 130000 tokens stand for long inputs
HalfText == "HALF"
BigText == "BIG"
Prompts == {None, "", "A", HalfText, BigText}
Replies == {"B"}

\* (image_path, local_image) pairs a caller passes
ImageArgs == {<<"", TRUE>>, <<"ok.jpg", TRUE>>, <<"missing.jpg", TRUE>>,
              <<"http://img", FALSE>>}

\* len(s) of a Python str
CharLen(s) == IF s = BigText THEN 520000
              ELSE IF s = HalfText THEN 256000
              ELSE Len(s)

\* len(self.tiktoken_encoder.encode(s)): the external tokenizer, as a table
EncodeLen(s) == IF s = BigText THEN 130000
                ELSE IF s = HalfText THEN 64000
                ELSE IF s = "image_url" THEN 3
                ELSE IF s = "" THEN 0
                ELSE 1

\* tiktoken.encoding_for_model(m) raises KeyError for a model it does not know
TiktokenKnows(m) == m = "gpt-4o"

TextBlock(t) == [type |-> "text", text |-> t]
ImageBlock(u) == [type |-> "image_url", image_url |-> [url |-> u, detail |-> "high"]]
IsStr(c) == DOMAIN c = {"str"}
StrContent(t) == [str |-> t]
ListContent(bs) == [list |-> bs]

SystemPrompt == [role |-> "system", content |-> ListContent(<<TextBlock("S")>>)]


(***************************************************************************)
(* num_tokens_from_messages                                                *)
(***************************************************************************)
\* tokens one content block adds: its 'type' and 'text' values are encoded,
\* an 'image_url' key costs a flat 1105
BlockTokens(b) == EncodeLen(b.type)
                  + (IF "text" \in DOMAIN b THEN EncodeLen(b.text) ELSE 0)
                  + (IF "image_url" \in DOMAIN b THEN ImageTokens ELSE 0)

RECURSIVE BlocksTokens(_)
BlocksTokens(bs) == IF bs = <<>> THEN 0
                    ELSE BlockTokens(Head(bs)) + BlocksTokens(Tail(bs))

ContentTokens(c) == IF IsStr(c) THEN EncodeLen(c.str) ELSE BlocksTokens(c.list)

MessageTokens(m) == PerMessageTokens + EncodeLen(m.role) + ContentTokens(m.content)

RECURSIVE SumMessageTokens(_)
SumMessageTokens(ms) == IF ms = <<>> THEN 0
                        ELSE MessageTokens(Head(ms)) + SumMessageTokens(Tail(ms))

\* the openai branch: per-message sums plus the trailing 2
ExactTokens(ms) == SumMessageTokens(ms) + TrailingTokens

\* len(str(x)) of the Python values a message is made of
ReprStr(s) == CharLen(s) + 2
ReprItem(keyLen, valLen) == keyLen + 2 + 2 + valLen
ReprBlock(b) ==
    IF "image_url" \in DOMAIN b
    THEN 2 + ReprItem(4, ReprStr(b.type)) + 2
           + ReprItem(9, 2 + ReprItem(3, ReprStr(b.image_url.url)) + 2
                           + ReprItem(6, ReprStr(b.image_url.detail)))
    ELSE 2 + ReprItem(4, ReprStr(b.type)) + 2 + ReprItem(4, ReprStr(b.text))

RECURSIVE ReprBlocks(_)
ReprBlocks(bs) == IF bs = <<>> THEN 0
                  ELSE ReprBlock(Head(bs)) + (IF Len(bs) > 1 THEN 2 ELSE 0)
                       + ReprBlocks(Tail(bs))

ReprContent(c) == IF IsStr(c) THEN ReprStr(c.str) ELSE 2 + ReprBlocks(c.list)

ReprMessage(m) == 2 + ReprItem(4, ReprStr(m.role)) + 2 + ReprItem(7, ReprContent(m.content))

\* the claude/gemini branch: sum(len(str(m)) // 4 for m in messages)
RECURSIVE RoughTokens(_)
RoughTokens(ms) == IF ms = <<>> THEN 0
                   ELSE (ReprMessage(Head(ms)) \div CharsPerToken) + RoughTokens(Tail(ms))

\* the value num_tokens_from_messages returns when it returns
num_tokens_from_messages(prov, ms) ==
    IF prov = "openai" THEN ExactTokens(ms) ELSE RoughTokens(ms)

\* num_tokens_from_messages raises NotImplementedError: the openai branch has no
\* cached encoder and tiktoken does not know the model
TokenCountRaises(prov, mdl, enc) == prov = "openai" /\ ~enc /\ ~TiktokenKnows(mdl)

\* the encoder cache after a call of num_tokens_from_messages that returned
EncoderAfter(prov, enc) == enc \/ prov = "openai"

(***************************************************************************)
(* The eviction loop of chat_with_history                                  *)
(***************************************************************************)
\* list.pop(0), the eviction a pinned first message forbids
Pop0(h) == Tail(h)

\* self.chat_history.pop(1): Python index 1 is the second element
Pop1(h) == <<h[1]>> \o SubSeq(h, 3, Len(h))

\* while num_tokens(h) > 128000: h.pop(1).  pop(1) raises IndexError on a list
\* shorter than 2 and leaves it as it is.
RECURSIVE Truncate(_, _, _)
Truncate(prov, h, n) ==
    IF num_tokens_from_messages(prov, h) > MaxContextTokens
    THEN IF Len(h) < 2
         THEN [hist |-> h, raised |-> TRUE, evicted |-> n]
         ELSE Truncate(prov, Pop1(h), n + 1)
    ELSE [hist |-> h, raised |-> FALSE, evicted |-> n]

(***************************************************************************)
(* Request shapes                                                          *)
(***************************************************************************)
\* sep.join(ss) of Python
RECURSIVE Join(_, _)
Join(ss, sep) == IF ss = <<>> THEN ""
                 ELSE IF Len(ss) = 1 THEN ss[1]
                 ELSE ss[1] \o sep \o Join(Tail(ss), sep)

\* [c['text'] for c in content if 'text' in c]
RECURSIVE BlockTexts(_)
BlockTexts(bs) == IF bs = <<>> THEN <<>>
                  ELSE (IF "text" \in DOMAIN Head(bs) THEN <<Head(bs).text>> ELSE <<>>)
                       \o BlockTexts(Tail(bs))

ClaudeMessage(m) ==
    [role |-> m.role,
     content |-> IF IsStr(m.content) THEN m.content.str
                 ELSE Join(BlockTexts(m.content.list), "\n")]

\* _claude_history_format: one {"role", "content": text} per message
_claude_history_format(h) == [i \in 1..Len(h) |-> ClaudeMessage(h[i])]

\* get_gemini_text: the text of the first block of a list content, else
\* str(content) (of a list content that is the repr of the list)
get_gemini_text(m) ==
    IF ~IsStr(m.content) /\ m.content.list # <<>> /\ "text" \in DOMAIN m.content.list[1]
    THEN m.content.list[1].text
    ELSE IF IsStr(m.content) THEN m.content.str ELSE "[...]"

\* [get_gemini_text(m) for m in h]: the role filter left out
RECURSIVE AllTexts(_)
AllTexts(h) == IF h = <<>> THEN <<>>
               ELSE <<get_gemini_text(Head(h))>> \o AllTexts(Tail(h))

\* [get_gemini_text(m) for m in h if m['role'] == 'user']
RECURSIVE UserTexts(_)
UserTexts(h) == IF h = <<>> THEN <<>>
                ELSE (IF Head(h).role = "user" THEN <<get_gemini_text(Head(h))>> ELSE <<>>)
                     \o UserTexts(Tail(h))

GeminiAllTurns(h) == Join(AllTexts(h), "\n")

\* history_text of the gemini branch
GeminiHistoryText(h) == Join(UserTexts(h), "\n")

NoRequest == [shape |-> "none", messages |-> <<>>, claude |-> <<>>, prompt |-> ""]

\* the openai request shape whatever the provider is
HistoryRequestOpenAIOnly(prov, h) == [NoRequest EXCEPT !.shape = "openai", !.messages = h]

\* what chat_with_history hands to the provider's SDK
HistoryRequest(prov, h) ==
    IF prov = "openai" THEN [NoRequest EXCEPT !.shape = "openai", !.messages = h]
    ELSE IF prov = "claude"
    THEN [NoRequest EXCEPT !.shape = "claude", !.claude = _claude_history_format(h)]
    ELSE [NoRequest EXCEPT !.shape = "gemini", !.prompt = GeminiHistoryText(h)]

\* what chat hands to the provider's SDK
ChatRequest(prov, prompt) ==
    IF prov = "openai"
    THEN [NoRequest EXCEPT !.shape = "openai",
                           !.messages = <<[role |-> "user", content |-> StrContent(prompt)]>>]
    ELSE IF prov = "claude"
    THEN [NoRequest EXCEPT !.shape = "claude",
                           !.claude = <<[role |-> "user", content |-> prompt]>>]
    ELSE [NoRequest EXCEPT !.shape = "gemini", !.prompt = prompt]

(***************************************************************************)
(* The backup file: json.dump and json.load                                *)
(***************************************************************************)
\* A JSON document: a string [s |-> ..], an array [a |-> <<..>>] or an object
\* [o |-> <<[k |-> key, v |-> value], ..>>] with its members in written order.
NoFile == [absent |-> TRUE]

JStr(t) == [s |-> t]
JMember(key, value) == [k |-> key, v |-> value]

DumpBlock(b) ==
    IF "image_url" \in DOMAIN b
    THEN [o |-> <<JMember("type", JStr(b.type)),
                  JMember("image_url",
                          [o |-> <<JMember("url", JStr(b.image_url.url)),
                                   JMember("detail", JStr(b.image_url.detail))>>])>>]
    ELSE [o |-> <<JMember("type", JStr(b.type)), JMember("text", JStr(b.text))>>]

DumpContent(c) ==
    IF IsStr(c) THEN JStr(c.str)
    ELSE [a |-> [i \in 1..Len(c.list) |-> DumpBlock(c.list[i])]]

DumpMessage(m) ==
    [o |-> <<JMember("role", JStr(m.role)), JMember("content", DumpContent(m.content))>>]

\* json.dump(self.chat_history, file)
JsonDump(h) == [a |-> [i \in 1..Len(h) |-> DumpMessage(h[i])]]

\* the value of a member of a JSON object (the last one of that key)
Member(obj, key) ==
    LET is == {i \in 1..Len(obj.o) : obj.o[i].k = key}
    IN obj.o[CHOOSE i \in is : \A j \in is : j <= i].v

HasMember(obj, key) == \E i \in 1..Len(obj.o) : obj.o[i].k = key

LoadBlock(j) ==
    IF HasMember(j, "image_url")
    THEN [type |-> Member(j, "type").s,
          image_url |-> [url |-> Member(Member(j, "image_url"), "url").s,
                         detail |-> Member(Member(j, "image_url"), "detail").s]]
    ELSE [type |-> Member(j, "type").s, text |-> Member(j, "text").s]

LoadContent(j) ==
    IF "s" \in DOMAIN j THEN StrContent(j.s)
    ELSE ListContent([i \in 1..Len(j.a) |-> LoadBlock(j.a[i])])

LoadMessage(j) ==
    [role |-> Member(j, "role").s, content |-> LoadContent(Member(j, "content"))]

\* save_chat_to_backup: the file is written only if a backup path was given
save_chat_to_backup(path, file, h) == IF path # None THEN JsonDump(h) ELSE file

\* json.load(file)
JsonLoad(doc) == [i \in 1..Len(doc.a) |-> LoadMessage(doc.a[i])]

(***************************************************************************)
(* Collaborators: the environment of _init_client, the image files and the *)
(* provider's reply                                                        *)
(***************************************************************************)
\* _init_client: the client is built, the package is missing (ImportError, the
\* client becomes None) or the API key is not in os.environ (KeyError, uncaught)
EnvOutcomes == {"ok", "ImportError", "KeyError"}

ModelArgs == {None, "my-model"}

\* the provider answers with a text or the SDK call raises
ApiError == "<APIError>"
ApiOutcomes == Replies \cup {ApiError}

\* open(image_path, "rb") succeeds
FileReadable(path) == path = "ok.jpg"

\* f"data:image/jpeg;base64,{base64_image}" of the bytes of ok.jpg
DataUrl(path) == "data:image/jpeg;base64," \o "QUJD"

DefaultPrompt == "Please give me a detailed description of this image."

_default_model_for_provider(prov) ==
    IF prov = "openai" THEN "gpt-4o"
    ELSE IF prov = "claude" THEN "claude-3-opus-20240229"
    ELSE "gemini-1.5-pro"

\* self.client after _init_client: unchanged when it raises (unknown provider,
\* or the API key missing from os.environ), None when the import fails
_init_client(prov, env, cli) ==
    IF prov \notin Providers \/ env = "KeyError" THEN cli
    ELSE IF env = "ImportError" THEN None
    ELSE prov

\* the system_prompt and chat_history_backup arguments of __init__
SystemPromptArgs == {None, "system"}
SystemPromptValue(a) == SystemPrompt
BackupArgs == {None, "backup.json"}

\* the chat_history __init__ leaves: the backup if the path is given and exists,
\* else the system prompt alone, else nothing
InitHistory(path, file, sp) ==
    IF path # None /\ file # NoFile THEN JsonLoad(file)
    ELSE IF sp # None THEN <<SystemPromptValue(sp)>>
    ELSE <<>>

\* the record of the call that led to the current state
NoCall == [op |-> "__init__", prompt |-> None, outcome |-> "None",
           dispatched |-> FALSE, counted |-> FALSE, before |-> <<>>, appended |-> <<>>,
           sent |-> <<>>, evicted |-> 0, request |-> NoRequest, provider |-> None,
           client |-> None]


(***************************************************************************)
(* __init__                                                                *)
(***************************************************************************)
Construct(file) ==
    \E prov \in Providers, env \in {"ok", "ImportError"},
       sp \in SystemPromptArgs, path \in BackupArgs :
        /\ provider' = prov
        /\ model' = _default_model_for_provider(prov)
        /\ client' = _init_client(prov, env, None)
        /\ tiktoken_encoder' = FALSE
        /\ chat_history_backup' = path
        /\ backup_file' = file
        /\ chat_history' = InitHistory(path, file, sp)
        /\ last' = NoCall
        /\ switched_from' = None

\* the backup an earlier session left: the system prompt and one exchange
PriorBackup == JsonDump(<<SystemPrompt,
                          [role |-> "user", content |-> ListContent(<<TextBlock("A")>>)],
                          [role |-> "assistant", content |-> StrContent("B")]>>)

Init == /\ provider \in Providers
        /\ model \in {_default_model_for_provider(provider), "my-model"}
        /\ client \in {provider, None}
        /\ tiktoken_encoder = FALSE
        /\ chat_history_backup \in BackupArgs
        /\ backup_file \in {NoFile, PriorBackup}
        /\ chat_history \in {InitHistory(chat_history_backup, backup_file, sp) :
                                sp \in SystemPromptArgs}
        /\ last = NoCall
        /\ switched_from = None
        /\ calls = 0

\* a later run of the program constructs the manager again on the same files
Restart == /\ calls < MaxCalls
           /\ calls' = calls + 1
           /\ Construct(backup_file)

(***************************************************************************)
(* set_provider                                                            *)
(***************************************************************************)
set_provider ==
    \E prov \in ProviderArgs, env \in EnvOutcomes :
      \E mdl \in (IF prov = "openai" THEN ModelArgs ELSE {None}) :
        /\ calls < MaxCalls
        /\ calls' = calls + 1
        /\ provider' = prov
        /\ switched_from' = provider
        /\ LET raisesAtModel == mdl = None /\ prov \notin Providers
           IN /\ model' = IF raisesAtModel THEN model
                          ELSE IF mdl # None THEN mdl
                          ELSE _default_model_for_provider(prov)
              /\ client' = IF raisesAtModel THEN client
                           ELSE _init_client(prov, env, client)
              /\ last' = [NoCall EXCEPT !.op = "set_provider",
                                        !.before = chat_history,
                                        !.provider = prov,
                                        !.client = client',
                                        !.outcome = IF prov \notin Providers THEN "raise:ValueError"
                                                    ELSE IF env = "KeyError" THEN "raise:KeyError"
                                                    ELSE "None"]
        /\ UNCHANGED <<tiktoken_encoder, chat_history, chat_history_backup, backup_file>>

(***************************************************************************)
(* chat                                                                    *)
(***************************************************************************)
\* the attribute the branch of a provider reads exists on the client object:
\* the client was built for that provider
ClientServes(prov, cli) == cli = prov

\* a client check that lets a missing client through
ClientMissingUnchecked(cli) == FALSE

\* self.client is None
ClientMissing(cli) == cli = None

\* chat rejects the question: only the openai branch counts its tokens
ChatTooLarge(prov, prompt) ==
    /\ prov = "openai"
    /\ num_tokens_from_messages(prov, <<[role |-> "user", content |-> StrContent(prompt)]>>)
         > MaxContextTokens

\* the outcome of chat(prompt) and whether a request went out
ChatOutcome(prov, mdl, cli, enc, prompt, api) ==
    IF prompt = None \/ prompt = "" THEN [outcome |-> "None", dispatched |-> FALSE]
    ELSE IF prov \notin Providers THEN [outcome |-> "raise:ValueError", dispatched |-> FALSE]
    ELSE IF ClientMissing(cli) THEN [outcome |-> "None", dispatched |-> FALSE]
    ELSE IF TokenCountRaises(prov, mdl, enc)
    THEN [outcome |-> "raise:NotImplementedError", dispatched |-> FALSE]
    ELSE IF ChatTooLarge(prov, prompt) THEN [outcome |-> "None", dispatched |-> FALSE]
    ELSE IF ~ClientServes(prov, cli) /\ cli # None
    THEN [outcome |-> "raise:AttributeError", dispatched |-> FALSE]
    ELSE IF api = ApiError THEN [outcome |-> "raise:APIError", dispatched |-> TRUE]
    ELSE [outcome |-> "reply", dispatched |-> TRUE]

\* chat keeping the exchange in the history
HistoryAfterChatKept(h, prompt, r, api) ==
    IF r.outcome = "reply"
    THEN h \o <<[role |-> "user", content |-> StrContent(prompt)],
                [role |-> "assistant", content |-> StrContent(api)]>>
    ELSE h

\* chat never touches self.chat_history
HistoryAfterChat(h, prompt, r, api) == h

chat ==
    \E prompt \in Prompts, api \in ApiOutcomes :
        /\ calls < MaxCalls
        /\ calls' = calls + 1
        /\ \E r \in {ChatOutcome(provider, model, client, tiktoken_encoder, prompt, api)} :
           LET counted == /\ prompt # None /\ prompt # ""
                          /\ provider = "openai" /\ ~ClientMissing(client)
                          /\ r.outcome # "raise:NotImplementedError"
           IN /\ tiktoken_encoder' = IF counted THEN EncoderAfter(provider, tiktoken_encoder)
                                     ELSE tiktoken_encoder
              /\ chat_history' = HistoryAfterChat(chat_history, prompt, r, api)
              /\ last' = [NoCall EXCEPT !.op = "chat",
                                        !.prompt = prompt,
                                        !.outcome = r.outcome,
                                        !.dispatched = r.dispatched,
                                        !.before = chat_history,
                                        !.provider = provider,
                                        !.client = client,
                                        !.request = IF r.dispatched
                                                    THEN ChatRequest(provider, prompt)
                                                    ELSE NoRequest]
        /\ UNCHANGED <<provider, model, client, chat_history_backup, backup_file,
                       switched_from>>

(***************************************************************************)
(* analyze_image                                                           *)
(***************************************************************************)
AnalyzeOutcome(prov, cli, image, api) ==
    IF ClientMissing(cli) THEN [outcome |-> "None", dispatched |-> FALSE]
    ELSE IF prov # "openai" THEN [outcome |-> "None", dispatched |-> FALSE]
    ELSE IF image[2] /\ ~FileReadable(image[1]) THEN [outcome |-> "None", dispatched |-> FALSE]
    ELSE IF ~ClientServes(prov, cli) /\ cli # None
    THEN [outcome |-> "raise:AttributeError", dispatched |-> FALSE]
    ELSE IF api = ApiError THEN [outcome |-> "raise:APIError", dispatched |-> TRUE]
    ELSE [outcome |-> "reply", dispatched |-> TRUE]

\* the one user message analyze_image sends
AnalyzeRequest(prompt, image) ==
    [NoRequest EXCEPT
        !.shape = "openai",
        !.messages = <<[role |-> "user",
                        content |-> ListContent(
                            <<TextBlock(IF prompt = None THEN DefaultPrompt ELSE prompt),
                              ImageBlock(IF image[2] THEN DataUrl(image[1]) ELSE image[1])>>)]>>]

analyze_image ==
    \E prompt \in {None, "A"}, image \in ImageArgs, api \in ApiOutcomes :
        /\ calls < MaxCalls
        /\ calls' = calls + 1
        /\ \E r \in {AnalyzeOutcome(provider, client, image, api)} :
              last' = [NoCall EXCEPT !.op = "analyze_image",
                                     !.prompt = prompt,
                                     !.outcome = r.outcome,
                                     !.dispatched = r.dispatched,
                                     !.before = chat_history,
                                     !.provider = provider,
                                     !.client = client,
                                     !.request = IF r.dispatched
                                                 THEN AnalyzeRequest(prompt, image)
                                                 ELSE NoRequest]
        /\ UNCHANGED <<provider, model, client, tiktoken_encoder, chat_history,
                       chat_history_backup, backup_file, switched_from>>

(***************************************************************************)
(* chat_with_history                                                       *)
(***************************************************************************)
HasPrompt(prompt) == prompt # None /\ prompt # ""

\* new_chat_message: the text block, then the image block if a path was given
UserTurn(prompt, image) ==
    [role |-> "user",
     content |-> ListContent(
        IF image[1] # ""
        THEN <<TextBlock(prompt), ImageBlock(IF image[2] THEN DataUrl(image[1]) ELSE image[1])>>
        ELSE <<TextBlock(prompt)>>)]

\* the local image cannot be read: the call prints and returns None
ImageEncodingFails(prompt, image) ==
    HasPrompt(prompt) /\ image[1] # "" /\ image[2] /\ ~FileReadable(image[1])

\* a user turn appended whatever the prompt is
AppendUserTurnAlways(h, prompt, image) == Append(h, UserTurn(prompt, image))

\* lines 199-225: the user turn is appended only for a non-empty prompt
AppendUserTurn(h, prompt, image) ==
    IF HasPrompt(prompt) THEN Append(h, UserTurn(prompt, image)) ELSE h

AssistantTurn(text) == [role |-> "assistant", content |-> StrContent(text)]

\* what one call of chat_with_history does, from the values it starts on
ChatWithHistoryResult(prov, mdl, cli, enc, h, prompt, image, api) ==
    LET appended == AppendUserTurn(h, prompt, image)
        t == Truncate(prov, appended, 0)
        base == [outcome |-> "None", dispatched |-> FALSE, history |-> h,
                 appended |-> h, sent |-> <<>>, evicted |-> 0,
                 request |-> NoRequest, counted |-> FALSE, saved |-> FALSE]
        cut == [base EXCEPT !.history = t.hist, !.appended = appended,
                            !.evicted = t.evicted, !.counted = TRUE]
    IN IF ImageEncodingFails(prompt, image) THEN base
       ELSE IF TokenCountRaises(prov, mdl, enc)
       THEN [base EXCEPT !.outcome = "raise:NotImplementedError",
                         !.history = appended, !.appended = appended]
       ELSE IF t.raised THEN [cut EXCEPT !.outcome = "raise:IndexError"]
       ELSE IF prov \notin Providers THEN [cut EXCEPT !.outcome = "raise:ValueError"]
       ELSE IF ClientMissing(cli) THEN cut
       ELSE IF ~ClientServes(prov, cli) /\ cli # None
       THEN [cut EXCEPT !.outcome = "raise:AttributeError"]
       ELSE IF api = ApiError
       THEN [cut EXCEPT !.outcome = "raise:APIError", !.dispatched = TRUE,
                        !.sent = t.hist, !.request = HistoryRequest(prov, t.hist)]
       ELSE [cut EXCEPT !.outcome = "reply", !.dispatched = TRUE,
                        !.sent = t.hist, !.request = HistoryRequest(prov, t.hist),
                        !.history = Append(t.hist, AssistantTurn(api)),
                        !.saved = TRUE]

\* the backup written from the history as it was before the reply was appended
BackupAfterStale(path, file, r) ==
    IF r.saved THEN save_chat_to_backup(path, file, r.sent) ELSE file

\* the backup file after the call: line 273 saves once the reply is appended
BackupAfter(path, file, r) ==
    IF r.saved THEN save_chat_to_backup(path, file, r.history) ELSE file

chat_with_history ==
    \E prompt \in Prompts, api \in ApiOutcomes :
      \E image \in (IF HasPrompt(prompt) THEN ImageArgs ELSE {<<"", TRUE>>}) :
        /\ calls < MaxCalls
        /\ calls' = calls + 1
        /\ \E r \in {ChatWithHistoryResult(provider, model, client, tiktoken_encoder,
                                            chat_history, prompt, image, api)} :
              /\ chat_history' = r.history
              /\ tiktoken_encoder' = IF r.counted THEN EncoderAfter(provider, tiktoken_encoder)
                                     ELSE tiktoken_encoder
              /\ backup_file' = BackupAfter(chat_history_backup, backup_file, r)
              /\ last' = [NoCall EXCEPT !.op = "chat_with_history",
                                        !.prompt = prompt,
                                        !.outcome = r.outcome,
                                        !.dispatched = r.dispatched,
                                        !.counted = r.counted,
                                        !.before = chat_history,
                                        !.appended = r.appended,
                                        !.sent = r.sent,
                                        !.evicted = r.evicted,
                                        !.provider = provider,
                                        !.client = client,
                                        !.request = r.request]
        /\ UNCHANGED <<provider, model, client, chat_history_backup, switched_from>>

Next == \/ Restart
        \/ set_provider
        \/ chat
        \/ analyze_image
        \/ chat_with_history

Spec == Init /\ [][Next]_vars

(***************************************************************************)
(* Properties                                                              *)
(***************************************************************************)
Cwh == "chat_with_history"

\* a message whose own estimate, under the provider of the latest call, is
\* above the context budget
Oversized(m) == num_tokens_from_messages(last.provider, <<m>>) > MaxContextTokens

\* C1: a chat_with_history call started on a non-empty history leaves the
\* message at index 0 where it was, whatever the eviction loop removed and
\* however the call ended.
C1_FirstMessageKept ==
    (last.op = Cwh /\ last.before # <<>>)
        => (chat_history # <<>> /\ chat_history[1] = last.before[1])

\* C1 witness: a call on a history led by the system prompt evicted a message
\* and got its reply.
C1_Witness ==
    /\ last.op = Cwh /\ last.outcome = "reply" /\ last.evicted >= 1
    /\ last.before # <<>> /\ last.before[1].role = "system"

\* C2 (as claimed): when the history the eviction loop starts on holds a message
\* that alone is above the budget, the call ends by raising from the loop and
\* sends nothing.
C2_OversizedIsReported ==
    (last.op = Cwh /\ last.counted /\ \E i \in 1..Len(last.appended) : Oversized(last.appended[i]))
        => (last.outcome = "raise:IndexError" /\ ~last.dispatched)

\* C3: chat and analyze_image leave chat_history as it was, whatever the
\* provider, the prompt and the outcome, and a chat request holds the one
\* message built from the prompt.
C3_SingleShotKeepsHistory ==
    /\ last.op \in {"chat", "analyze_image"} => chat_history = last.before
    /\ (last.op = "chat" /\ last.dispatched)
          => /\ Len(last.request.messages) + Len(last.request.claude) <= 1
             /\ last.request.shape = "openai"
                   => last.request.messages[1].content = StrContent(last.prompt)
             /\ last.request.shape = "claude"
                   => last.request.claude[1].content = last.prompt
             /\ last.request.shape = "gemini" => last.request.prompt = last.prompt

\* C3 witness: chat got a reply while the history held messages.
C3_Witness ==
    last.op = "chat" /\ last.outcome = "reply" /\ chat_history # <<>> /\ calls = MaxCalls

\* C4: an empty or missing prompt appends no user turn; a non-empty prompt of a
\* call that gets as far as the eviction loop appends exactly one user turn
\* carrying it; a reply is appended as the one assistant message after the
\* history that was sent.
C4_TurnsAppended ==
    last.op = Cwh =>
        /\ ~HasPrompt(last.prompt) => last.appended = last.before
        /\ (HasPrompt(last.prompt) /\ last.counted)
              => /\ Len(last.appended) = Len(last.before) + 1
                 /\ SubSeq(last.appended, 1, Len(last.before)) = last.before
                 /\ last.appended[Len(last.appended)].role = "user"
                 /\ last.appended[Len(last.appended)].content.list[1] = TextBlock(last.prompt)
        /\ last.dispatched => Len(last.sent) = Len(last.appended) - last.evicted
        /\ last.outcome = "reply"
              => /\ Len(chat_history) = Len(last.sent) + 1
                 /\ SubSeq(chat_history, 1, Len(last.sent)) = last.sent
                 /\ chat_history[Len(chat_history)].role = "assistant"
        /\ (last.dispatched /\ last.outcome # "reply") => chat_history = last.sent

\* C4 witness: a call without a prompt got a reply on a history that held
\* messages.
C4_Witness ==
    /\ last.op = Cwh /\ last.prompt = "" /\ last.outcome = "reply"
    /\ last.before # <<>> /\ Len(chat_history) = Len(last.before) + 1

\* C5: no call sends a request while self.client is None.
C5_NoDispatchWithoutClient ==
    (last.op \in {"chat", Cwh, "analyze_image"} /\ last.client = None) => ~last.dispatched

\* C5 witness: chat_with_history was called with a prompt while the client was
\* None.
C5_Witness ==
    last.op = Cwh /\ last.client = None /\ last.prompt = "A" /\ last.counted

\* C6 (as claimed): under every provider, chat with a prompt whose one-message
\* estimate is above the budget sends nothing.
C6_LargePromptRejected ==
    (/\ last.op = "chat" /\ HasPrompt(last.prompt)
     /\ Oversized([role |-> "user", content |-> StrContent(last.prompt)]))
        => ~last.dispatched

\* the text the claude shape carries for a message: its str content, or the
\* texts of its text blocks joined by newlines
C7_FlatText(m) ==
    IF IsStr(m.content) THEN m.content.str
    ELSE Join([i \in 1..Len(BlockTexts(m.content.list)) |-> BlockTexts(m.content.list)[i]], "\n")

\* C7: set_provider leaves chat_history as it was, and a chat_with_history
\* request has the shape of the provider in force over the whole history sent:
\* for claude one {role, flattened text} per message, for openai the messages
\* themselves.
C7_SwitchKeepsHistory ==
    /\ last.op = "set_provider" => chat_history = last.before
    /\ (last.op = Cwh /\ last.dispatched)
          => /\ last.request.shape = provider
             /\ provider = "openai" => last.request.messages = last.sent
             /\ provider = "claude"
                   => /\ Len(last.request.claude) = Len(last.sent)
                      /\ \A i \in 1..Len(last.sent) :
                            /\ last.request.claude[i].role = last.sent[i].role
                            /\ last.request.claude[i].content = C7_FlatText(last.sent[i])

\* C7 witness: after a switch from openai to claude a call sent the history
\* the manager was holding before the switch.
C7_Witness ==
    /\ switched_from = "openai" /\ provider = "claude"
    /\ last.op = Cwh /\ last.dispatched /\ last.prompt = "A"
    /\ Len(last.before) = 3 /\ Len(last.request.claude) = 4

\* C8: after a chat_with_history call that got its reply with a backup path
\* set, the backup file exists and a manager constructed on that path starts
\* with the current history, the reply included, whatever system prompt it is
\* given.
C8_BackupRoundTrip ==
    (last.op = Cwh /\ last.outcome = "reply" /\ chat_history_backup # None)
        => /\ backup_file # NoFile
           /\ JsonLoad(backup_file) = chat_history
           /\ \A sp \in SystemPromptArgs :
                 InitHistory(chat_history_backup, backup_file, sp) = chat_history
           /\ chat_history[Len(chat_history)].role = "assistant"

\* C8 witness: the history saved holds a user turn with an image block.
C8_Witness ==
    /\ last.op = Cwh /\ last.outcome = "reply" /\ chat_history_backup # None
    /\ \E i \in 1..Len(chat_history) :
          /\ ~IsStr(chat_history[i].content)
          /\ Len(chat_history[i].content.list) = 2

\* the texts of the user messages of h, in order
C9_UserTexts(h) ==
    LET us == SelectSeq(h, LAMBDA m : m.role = "user")
    IN [i \in 1..Len(us) |-> us[i].content.list[1].text]

C9_Example ==
    <<[role |-> "user", content |-> ListContent(<<TextBlock("A")>>)],
      [role |-> "assistant", content |-> StrContent("B")],
      [role |-> "user", content |-> ListContent(<<TextBlock("C")>>)]>>

\* C9: the gemini prompt of chat_with_history is the texts of the user
\* messages of the history sent, in order, joined by newlines; system and
\* assistant messages add nothing, and [user:A, assistant:B, user:C] gives
\* "A\nC".
C9_GeminiPrompt ==
    /\ (last.op = Cwh /\ last.dispatched /\ provider = "gemini")
          => last.request.prompt = Join(C9_UserTexts(last.sent), "\n")
    /\ GeminiHistoryText(C9_Example) = "A\nC"

\* C9 witness: a gemini call sent a history of a system prompt, two user turns
\* and an assistant turn.
C9_Witness ==
    /\ last.op = Cwh /\ last.dispatched /\ provider = "gemini"
    /\ Len(last.sent) = 4 /\ last.request.prompt = "A\nA"

\* C10 (as claimed): a chat_with_history call that returns None leaves
\* chat_history as it was before the call.
C10_NoReplyKeepsHistory ==
    (last.op = Cwh /\ last.outcome = "None") => chat_history = last.before

=============================================================================
